---- MODULE Spec2Model ----
(***************************************************************************)
(* Order-to-courier assignment engine of final_meal_mover.                 *)
(*                                                                         *)
(* The store (MySQL tables) is the shared state.  A worker is one HTTP     *)
(* request to /assign_orders (main_api.py): it runs process_order_table    *)
(* over tbl_normal_order and then over tbl_subscribe_order.  Every helper  *)
(* of order_assign.py opens its own connection and commits on its own, so  *)
(* each helper call is one atomic step on the store and the steps of two   *)
(* requests interleave.  assign_order runs its statements in one           *)
(* transaction: nothing of it is visible before the commit.                *)
(***************************************************************************)
EXTENDS Integers, Sequences, FiniteSets, TLC

\* ------------------------------------------------------------------ bounds
NumOrders == 2
NumRiders == 2
NumZones == 1
MaxCap == 1
MaxFaults == 1
MaxKm == 2

Orders == 1..NumOrders
Riders == 1..NumRiders
Zones == 1..NumZones
Workers == {"w1", "w2"}
None == 0

Tables == {"tbl_normal_order", "tbl_subscribe_order"}

VARIABLES
    order_table,            \* the table an order row lives in
    matches,                \* the row satisfies the table's extra SELECT predicate
    order_status,           \* <table>.order_status
    rid,                    \* <table>.rid, the stored courier id (None = NULL)
    is_online,              \* tbl_rider_availability.is_online
    is_available,           \* tbl_rider_availability.is_available
    active_order_count,     \* tbl_rider_availability.active_order_count
    max_capacity,           \* tbl_rider_availability.max_capacity
    tbl_rider_assignments,  \* one row per order (ON DUPLICATE KEY): [rider_id, status]
    tbl_rider_rejections,   \* set of <<order_id, rider_id, reason>>
    notif_rider,            \* tbl_notification "New Order Available" rows per <<order, rider>>
    notif_user,             \* tbl_notification "Order Assigned!" rows per order
    tbl_delivery,           \* tbl_delivery rows per <<order, rider>>
    tbl_rider_performance,  \* tbl_rider_performance.orders_assigned per rider
    pass,                   \* per worker: the locals of assign_orders / process_order_table
    response,               \* per worker: the last JSON response of assign_orders
    faults,                 \* number of store failures injected
    rider_status,           \* tbl_rider.status = 1
    rstatus,                \* tbl_rider.rstatus
    tbl_rider_routes,       \* set of <<rider_id, zone_id>>
    acceptance_rate,        \* tbl_rider_performance.acceptance_rate, in tenths
    avg_delivery_time,      \* tbl_rider_performance.avg_delivery_time, in minutes
    zone_meta,              \* tbl_delivery_zones: [delivery_time_min, delivery_time_max]
    tbl_rider_assignment,   \* integrated_one's assignment rows per <<order, rider>>
    io,                     \* the locals of integrated_one's assign_orders / process_order_table
    geo,                    \* one zone row, one point and the locals of load_zones / find_zone
    ranking                 \* the rows of one riders query and the locals of get_available_riders

store == <<order_status, rid, active_order_count, tbl_rider_assignments,
           tbl_rider_rejections, notif_rider, notif_user, tbl_delivery,
           tbl_rider_performance>>
\* what only integrated_one.py reads or writes, and what only order_assign.py does
io_vars == <<rider_status, rstatus, tbl_rider_routes, acceptance_rate, avg_delivery_time,
             zone_meta, tbl_rider_assignment, io, geo, ranking>>
oa_vars == <<matches, is_online, tbl_rider_assignments, tbl_rider_performance, pass,
             response>>
\* what no step of order_assign.py changes
static == <<order_table, matches, is_online, is_available, max_capacity, io_vars>>
vars == <<store, static, pass, response, faults>>

\* ------------------------------------------------------------------ helpers
Pairs == Orders \X Riders

NoRow == [rider_id |-> None, status |-> "none"]

NoResponse == [status |-> "none", total_assigned |-> 0, total_not_assigned |-> 0]

\* the locals of one request.  rolled_back (the orders whose assign_order rolled
\* back in this pass, with the statement that failed), raised_in (the table whose
\* pass raised) and exhausted (the orders this request counted not assigned) record
\* what happened; the code keeps no such values
Idle == [pc |-> "idle", table |-> "tbl_normal_order", orders |-> <<>>, i |-> 0,
         zone |-> None, nearby |-> <<>>, j |-> 0, final_rider |-> None,
         response_status |-> "none",
         assigned |-> 0, not_assigned |-> 0, assigned_orders |-> <<>>,
         assigned_normal |-> 0, not_assigned_normal |-> 0, list_normal |-> <<>>,
         rolled_back |-> {}, raised_in |-> "none", exhausted |-> {}]

SetToSeq(S) ==
    LET RECURSIVE Build(_)
        Build(T) == IF T = {} THEN <<>>
                    ELSE LET m == CHOOSE x \in T : \A y \in T : x <= y
                         IN <<m>> \o Build(T \ {m})
    IN Build(S)

Range(s) == {s[k] : k \in 1..Len(s)}

CanFail == faults < MaxFaults

\* a failure is injected exactly when ok is FALSE
Fault(ok) == /\ ~ok => CanFail
             /\ faults' = IF ok THEN faults ELSE faults + 1

\* the locals of integrated_one's request: best_score is the exact value of
\* 20 * score, as whole + num / den with 0 <= num < den.  skipped (the orders of this
\* pass counted not assigned, each with the reason and the zone it resolved to),
\* dropped (the orders of this pass left without a count, likewise), scored (the
\* candidates of the current order that passed both gates, in the order of
\* evaluation, each with its parsed distance, its score and its duration text) and
\* raised_at (the call that raised) record what happened; the code keeps no such values
NoScore == [whole |-> -20, num |-> 0, den |-> 1]

IOIdle == [pc |-> "idle", table |-> "tbl_normal_order", orders |-> <<>>, i |-> 0,
           zone |-> None, riders |-> <<>>, j |-> 0,
           nearest_rider |-> None, best_score |-> NoScore,
           rejected_riders |-> <<>>, k |-> 0,
           assigned |-> 0, not_assigned |-> 0, assigned_orders |-> <<>>,
           a1 |-> 0, n1 |-> 0, list1 |-> <<>>,
           result |-> "none", skipped |-> {}, dropped |-> {}, scored |-> <<>>,
           raised_at |-> "none"]

\* The zone lookup taken alone: one stored zone row and one geocoded point.  The row
\* is a rectangle (west, east, south, north, in thousandths of a degree) written
\* with its pairs longitude-first or latitude-first, in one of the encodings, its
\* corners in order, or crossed, or the first two only; zones is what load_zones
\* built from it and result what find_zone returned
GeoIdle == [pc |-> "idle", engine |-> "none", encoding |-> "none", axis |-> "none",
            shape |-> "none",
            box |-> [w |-> 0, e |-> 0, s |-> 0, n |-> 0], id |-> None,
            lat |-> 0, lng |-> 0, zones |-> <<>>, result |-> None]

\* The ranking of the candidates taken alone: riders (the rows the SQL query
\* returned, numbered in its ORDER BY order), on_route and dist (what
\* find_riders_on_route and get_distance_and_time answered for them), nearby (the
\* sorted list returned) and offered (the riders the cascade has offered the order,
\* in sequence)
RankIdle == [pc |-> "idle", riders |-> {}, on_route |-> {}, dist |-> <<>>,
             nearby |-> <<>>, j |-> 0, offered |-> <<>>]

\* integrated_one.py does not run: its tables and locals keep their first value
IOUnused ==
    /\ rider_status = [r \in Riders |-> TRUE]
    /\ rstatus = [r \in Riders |-> 0]
    /\ tbl_rider_routes = {}
    /\ acceptance_rate = [r \in Riders |-> 0]
    /\ avg_delivery_time = [r \in Riders |-> 0]
    /\ zone_meta = [z \in Zones |-> [delivery_time_min |-> 0, delivery_time_max |-> 0]]
    /\ tbl_rider_assignment = [x \in Pairs |-> 0]
    /\ io = IOIdle

\* The store before the first request.  Every order is pending; the orders before
\* the last one are delivery orders of tbl_normal_order, the last one is any of: such
\* an order, a row the SELECT's extra predicate leaves out, a subscription order.
\* Every courier before the last one is online with no load; the last one is online
\* with any load up to its capacity, or offline.
InitStore ==
    /\ order_table \in [Orders -> Tables]
    /\ matches \in [Orders -> BOOLEAN]
    /\ \A o \in Orders : o < NumOrders => order_table[o] = "tbl_normal_order" /\ matches[o]
    /\ order_table[NumOrders] = "tbl_subscribe_order" => matches[NumOrders]
    /\ order_status = [o \in Orders |-> 0]
    /\ rid = [o \in Orders |-> None]
    /\ is_online \in [Riders -> BOOLEAN]
    /\ is_available = [r \in Riders |-> TRUE]
    /\ max_capacity = [r \in Riders |-> MaxCap]
    /\ active_order_count \in [Riders -> 0..MaxCap]
    /\ \A r \in Riders : r < NumRiders => is_online[r] /\ active_order_count[r] = 0
    /\ ~is_online[NumRiders] => active_order_count[NumRiders] = 0
    /\ tbl_rider_assignments = [o \in Orders |-> NoRow]
    /\ tbl_rider_rejections = {}
    /\ notif_rider = [x \in Pairs |-> 0]
    /\ notif_user = [o \in Orders |-> 0]
    /\ tbl_delivery = [x \in Pairs |-> 0]
    /\ tbl_rider_performance = [r \in Riders |-> 0]
    /\ pass = [w \in Workers |-> Idle]
    /\ response = [w \in Workers |-> NoResponse]
    /\ IOUnused

Init == InitStore /\ faults = 0 /\ geo = GeoIdle /\ ranking = RankIdle

\* ------------------------------------------------- order_assign.py: the pass
Cur(w) == pass[w].orders[pass[w].i]

CurRider(w) == pass[w].nearby[pass[w].j]

\* a loop that starts again from the first order after the last one
NextOrderFromFirst(p) ==
    [p EXCEPT !.pc = "geocode", !.i = IF p.i < Len(p.orders) THEN p.i + 1 ELSE 1,
              !.zone = None, !.nearby = <<>>,
              !.j = 0, !.final_rider = None, !.response_status = "none"]

\* the locals after the loop body of the current order ends (continue / fall through)
NextOrder(p) ==
    IF p.i < Len(p.orders)
    THEN [p EXCEPT !.pc = "geocode", !.i = p.i + 1, !.zone = None, !.nearby = <<>>,
                   !.j = 0, !.final_rider = None, !.response_status = "none"]
    ELSE [p EXCEPT !.pc = "save", !.zone = None, !.nearby = <<>>,
                   !.j = 0, !.final_rider = None, !.response_status = "none"]

\* GET /assign_orders: main_api.assign_orders is entered and calls
\* process_order_table("tbl_normal_order").  Each worker serves one request, w1 the
\* first one
Enter(w) ==
    /\ pass[w].pc = "idle"
    /\ response[w].status = "none"
    /\ w = "w2" => pass["w1"].pc # "idle" \/ response["w1"].status # "none"
    /\ pass' = [pass EXCEPT ![w] = [Idle EXCEPT !.pc = "select"]]
    /\ UNCHANGED <<store, static, response, faults>>

\* the second request arrives after the first one has been answered
StartRequest(w) ==
    /\ \A v \in Workers \ {w} : pass[v].pc = "idle"
    /\ Enter(w)

\* the second request arrives at any time (the development server is threaded)
StartConcurrent(w) ==
    /\ pass[w].pc = "idle"
    /\ Enter(w)

\* the point geocode_address returns for the order's address lies in this zone
\* (find_zone); orders with an even id lie outside every zone
FindZone(o) == IF o % 2 = 1 THEN 1 ELSE None

\* a SELECT that leaves out the orders some courier has rejected
PendingOrdersNeverRejected(t) ==
    {o \in Orders : /\ order_table[o] = t /\ order_status[o] = 0 /\ matches[o]
                    /\ \A x \in tbl_rider_rejections : x[1] # o}

\* the SELECT without its order_status = 0 predicate
PendingOrdersAnyStatus(t) ==
    {o \in Orders : order_table[o] = t /\ matches[o]}

\* load_zones() (a read of reference data), then the SELECT * FROM <table> WHERE order_status = 0 AND <o_type = 'Delivery' | odate = today>
PendingOrders(t) ==
    {o \in Orders : order_table[o] = t /\ order_status[o] = 0 /\ matches[o]}

SelectOrders(w) ==
    /\ pass[w].pc = "select"
    /\ LET os == SetToSeq(PendingOrders(pass[w].table))
       IN pass' = [pass EXCEPT ![w] =
                     IF os = <<>> THEN [@ EXCEPT !.pc = "save", !.orders = os]
                     ELSE [@ EXCEPT !.pc = "geocode", !.orders = os, !.i = 1]]
    /\ UNCHANGED <<store, static, response, faults>>

\* geocode_address + find_zone: the provider answers (lat, lng) or nothing; an order
\* without a point is skipped with `continue` and counted nowhere
GeocodeAddress(w) ==
    /\ pass[w].pc = "geocode"
    /\ \/ pass' = [pass EXCEPT ![w] = NextOrder(@)]
       \/ pass' = [pass EXCEPT ![w] = [@ EXCEPT !.pc = "query", !.zone = FindZone(Cur(w))]]
    /\ UNCHANGED <<store, static, response, faults>>

\* ------------------------------------------------- get_available_riders
\* what get_distance_and_time returns as the distance text: nothing, "500 m", "<k> km"
NoDistance == [unit |-> "none", num |-> 0]

DistTexts == {NoDistance, [unit |-> "m", num |-> 500]}
             \cup {[unit |-> "km", num |-> k] : k \in 1..MaxKm}

\* get_rejected_riders: SELECT rider_id FROM tbl_rider_rejections WHERE order_id = o
RejectedRiders(o) == {r \in Riders : \E x \in tbl_rider_rejections : x[1] = o /\ x[2] = r}

\* the riders query without its active_order_count < max_capacity predicate
AvailableRidersAnyLoad(rejected) ==
    {r \in Riders : is_online[r] /\ is_available[r] /\ r \notin rejected}

\* the WHERE clause of the riders query, for the riders not in `rejected`
AvailableRiders(rejected) ==
    {r \in Riders : /\ is_online[r]
                    /\ is_available[r]
                    /\ active_order_count[r] < max_capacity[r]
                    /\ r \notin rejected}

\* a sort key without the on_route flag
SortKeyDistanceOnly(r, on_route, dist) == <<0, dist[r].num>>

\* nearby_riders.sort(key = (not on_route, float(distance))): a stable sort of the
\* SQL result, which comes in rider-id order here
SortKey(r, on_route, dist) == <<IF r \in on_route THEN 0 ELSE 1, dist[r].num>>

KeyLess(a, b) == a[1] < b[1] \/ (a[1] = b[1] /\ a[2] < b[2])

SortRiders(S, on_route, dist) ==
    LET Before(a, b) == \/ KeyLess(SortKey(a, on_route, dist), SortKey(b, on_route, dist))
                        \/ /\ SortKey(a, on_route, dist) = SortKey(b, on_route, dist)
                           /\ a <= b
        RECURSIVE Build(_)
        Build(T) == IF T = {} THEN <<>>
                    ELSE LET m == CHOOSE x \in T : \A y \in T : Before(x, y)
                         IN <<m>> \o Build(T \ {m})
    IN Build(S)

\* get_available_riders(lat, lng, order_id): the two reads swallow a failed
\* statement (rejected = [], riders = []); a distance text without " km" makes
\* float() raise in the sort key, and nothing catches it
GetAvailableRiders(w) ==
    /\ pass[w].pc = "query"
    /\ \E rej_ok \in BOOLEAN, sql_ok \in BOOLEAN, on_route \in SUBSET Riders,
          dist \in [Riders -> DistTexts] :
        LET rejected == IF rej_ok THEN RejectedRiders(Cur(w)) ELSE {}
            riders == IF sql_ok THEN AvailableRiders(rejected) ELSE {}
            near == {r \in riders : dist[r] # NoDistance}
            sorted == SortRiders(near, on_route, dist)
        IN /\ rej_ok \/ sql_ok
           /\ Fault(rej_ok /\ sql_ok)
           /\ \A r \in Riders \ riders : dist[r] = NoDistance /\ r \notin on_route
           /\ pass' = [pass EXCEPT ![w] =
                 IF \E r \in near : dist[r].unit = "m"
                 THEN [@ EXCEPT !.pc = "raised", !.raised_in = pass[w].table]
                 ELSE IF sorted = <<>>
                 THEN NextOrder([@ EXCEPT !.not_assigned = @ + 1,
                                          !.exhausted = @ \cup {Cur(w)}])
                 ELSE [@ EXCEPT !.pc = "log_assignment", !.nearby = sorted, !.j = 1]]
    /\ UNCHANGED <<store, static, response>>

\* ------------------------------------------------- the offer cascade
\* log_assignment: INSERT ... ON DUPLICATE KEY UPDATE rider_id, status = 'pending'
LogAssignment(w) ==
    /\ pass[w].pc = "log_assignment"
    /\ \E ok \in BOOLEAN :
        /\ Fault(ok)
        /\ tbl_rider_assignments' =
             IF ok THEN [tbl_rider_assignments EXCEPT
                           ![Cur(w)] = [rider_id |-> CurRider(w), status |-> "pending"]]
             ELSE tbl_rider_assignments
    /\ pass' = [pass EXCEPT ![w].pc = "notify_rider"]
    /\ UNCHANGED <<order_status, rid, active_order_count, tbl_rider_rejections,
                   notif_rider, notif_user, tbl_delivery, tbl_rider_performance,
                   static, response>>

\* insert_rider_notification
InsertRiderNotification(w) ==
    /\ pass[w].pc = "notify_rider"
    /\ \E ok \in BOOLEAN :
        /\ Fault(ok)
        /\ notif_rider' =
             IF ok THEN [notif_rider EXCEPT ![<<Cur(w), CurRider(w)>>] = @ + 1]
             ELSE notif_rider
    /\ pass' = [pass EXCEPT ![w].pc = "respond"]
    /\ UNCHANGED <<order_status, rid, active_order_count, tbl_rider_assignments,
                   tbl_rider_rejections, notif_user, tbl_delivery,
                   tbl_rider_performance, static, response>>

\* simulate_rider_response, first half: the draw, and log_rider_rejection on a reject
SimulateRiderResponse(w) ==
    /\ pass[w].pc = "respond"
    /\ \/ /\ pass' = [pass EXCEPT ![w] =
                        [@ EXCEPT !.pc = "response_update", !.response_status = "accepted"]]
          /\ UNCHANGED <<tbl_rider_rejections, faults>>
       \/ /\ pass' = [pass EXCEPT ![w] =
                        [@ EXCEPT !.pc = "response_update", !.response_status = "rejected"]]
          /\ \E ok \in BOOLEAN :
               /\ Fault(ok)
               /\ tbl_rider_rejections' =
                    IF ok THEN tbl_rider_rejections \cup {<<Cur(w), CurRider(w), "Rider busy">>}
                    ELSE tbl_rider_rejections
    /\ UNCHANGED <<order_status, rid, active_order_count, tbl_rider_assignments,
                   notif_rider, notif_user, tbl_delivery, tbl_rider_performance,
                   static, response>>

\* a cascade without the `break`: after an acceptance the remaining candidates are
\* offered the order too
ResponseUpdateNoBreak(w) ==
    /\ pass[w].pc = "response_update"
    /\ \E ok \in BOOLEAN :
        /\ Fault(ok)
        /\ tbl_rider_assignments' =
             IF ok /\ tbl_rider_assignments[Cur(w)].rider_id = CurRider(w)
             THEN [tbl_rider_assignments EXCEPT ![Cur(w)].status = pass[w].response_status]
             ELSE tbl_rider_assignments
    /\ pass' = [pass EXCEPT ![w] =
         IF @.j < Len(@.nearby)
         THEN [@ EXCEPT !.pc = "log_assignment", !.j = @ + 1, !.response_status = "none"]
         ELSE IF @.response_status = "accepted"
         THEN [@ EXCEPT !.pc = "assign_order", !.final_rider = CurRider(w)]
         ELSE NextOrder([@ EXCEPT !.not_assigned = @ + 1,
                                  !.exhausted = @ \cup {Cur(w)}])]
    /\ UNCHANGED <<order_status, rid, active_order_count, tbl_rider_rejections,
                   notif_rider, notif_user, tbl_delivery, tbl_rider_performance,
                   static, response>>

\* simulate_rider_response, second half: UPDATE tbl_rider_assignments SET status
\* WHERE order_id AND rider_id; then the caller's branch on the returned status
ResponseUpdate(w) ==
    /\ pass[w].pc = "response_update"
    /\ \E ok \in BOOLEAN :
        /\ Fault(ok)
        /\ tbl_rider_assignments' =
             IF ok /\ tbl_rider_assignments[Cur(w)].rider_id = CurRider(w)
             THEN [tbl_rider_assignments EXCEPT ![Cur(w)].status = pass[w].response_status]
             ELSE tbl_rider_assignments
    /\ pass' = [pass EXCEPT ![w] =
         IF @.response_status = "accepted"
         THEN [@ EXCEPT !.pc = "assign_order", !.final_rider = CurRider(w)]
         ELSE IF @.j < Len(@.nearby)
         THEN [@ EXCEPT !.pc = "log_assignment", !.j = @ + 1, !.response_status = "none"]
         ELSE NextOrder([@ EXCEPT !.not_assigned = @ + 1,
                                  !.exhausted = @ \cup {Cur(w)}])]
    /\ UNCHANGED <<order_status, rid, active_order_count, tbl_rider_rejections,
                   notif_rider, notif_user, tbl_delivery, tbl_rider_performance,
                   static, response>>

\* ------------------------------------------------- assign_order
\* the rows assign_order touches, as one transaction sees them
Committed == [order_status |-> order_status, rid |-> rid,
              active_order_count |-> active_order_count,
              tbl_delivery |-> tbl_delivery,
              tbl_rider_performance |-> tbl_rider_performance]

AssignStatements == <<"update_order", "update_availability", "insert_delivery",
                      "upsert_performance">>

\* one cursor.execute of assign_order(order, rider_id, table_name) on the view tx
Execute(stmt, tx, o, r) ==
    CASE stmt = "update_order" ->
           [tx EXCEPT !.rid[o] = r, !.order_status[o] = 1]
      [] stmt = "update_availability" ->
           [tx EXCEPT !.active_order_count[r] = @ + 1]
      [] stmt = "insert_delivery" ->
           [tx EXCEPT !.tbl_delivery[<<o, r>>] = @ + 1]
      [] stmt = "upsert_performance" ->
           [tx EXCEPT !.tbl_rider_performance[r] = @ + 1]

\* the view after the first n statements have been executed
RECURSIVE Executed(_, _, _)
Executed(n, o, r) ==
    IF n = 0 THEN Committed
    ELSE Execute(AssignStatements[n], Executed(n - 1, o, r), o, r)

\* a rollback that keeps what the executed statements wrote (autocommit)
RollbackKeepsWrites(tx) == tx

\* conn.rollback(): the uncommitted view is dropped
Rollback(tx) == Committed

\* n statements succeed; with n = Len(AssignStatements) + 1 the commit succeeds too,
\* otherwise statement n + 1 (or the commit) raises and the except branch rolls back.
\* The exception is printed and swallowed: the caller goes on to notify_user
AssignOrder(w) ==
    /\ pass[w].pc = "assign_order"
    /\ \E n \in 0..(Len(AssignStatements) + 1) :
        LET all == Len(AssignStatements)
            ok == n = all + 1
            tx == Executed(IF ok THEN all ELSE n, Cur(w), pass[w].final_rider)
            after == IF ok THEN tx ELSE Rollback(tx)
            failed == IF n < all THEN AssignStatements[n + 1] ELSE "commit"
        IN /\ Fault(ok)
           /\ order_status' = after.order_status
           /\ rid' = after.rid
           /\ active_order_count' = after.active_order_count
           /\ tbl_delivery' = after.tbl_delivery
           /\ tbl_rider_performance' = after.tbl_rider_performance
           /\ pass' = [pass EXCEPT ![w] =
                 [@ EXCEPT !.pc = "notify_user",
                           !.rolled_back = IF ok THEN @ ELSE @ \cup {<<Cur(w), failed>>}]]
    /\ UNCHANGED <<tbl_rider_assignments, tbl_rider_rejections, notif_rider, notif_user,
                   static, response>>

\* if final_rider: notify_user, the detail fields, assigned += 1
NotifyUser(w) ==
    /\ pass[w].pc = "notify_user"
    /\ \E ok \in BOOLEAN :
        /\ Fault(ok)
        /\ notif_user' = IF ok THEN [notif_user EXCEPT ![Cur(w)] = @ + 1] ELSE notif_user
    /\ pass' = [pass EXCEPT ![w] =
         NextOrder([@ EXCEPT
            !.assigned = @ + 1,
            !.assigned_orders = Append(@, [id |-> Cur(w), rider |-> pass[w].final_rider,
                                           zone |-> pass[w].zone])])]
    /\ UNCHANGED <<order_status, rid, active_order_count, tbl_rider_assignments,
                   tbl_rider_rejections, notif_rider, tbl_delivery,
                   tbl_rider_performance, static, response>>

\* ------------------------------------------------- return, and main_api.assign_orders
\* process_order_table returns (assigned, not_assigned, assigned_orders); after the
\* first table assign_orders calls it for tbl_subscribe_order, after the second it
\* answers with the totals
ReturnFromPass(w) ==
    /\ pass[w].pc = "save"
    /\ IF pass[w].table = "tbl_normal_order"
       THEN /\ pass' = [pass EXCEPT ![w] =
                  [Idle EXCEPT !.pc = "select", !.table = "tbl_subscribe_order",
                               !.assigned_normal = pass[w].assigned,
                               !.not_assigned_normal = pass[w].not_assigned,
                               !.list_normal = pass[w].assigned_orders,
                               !.exhausted = pass[w].exhausted]]
            /\ UNCHANGED response
       ELSE /\ response' = [response EXCEPT ![w] =
                  [status |-> "success",
                   total_assigned |-> pass[w].assigned_normal + pass[w].assigned,
                   total_not_assigned |-> pass[w].not_assigned_normal + pass[w].not_assigned]]
            /\ pass' = [pass EXCEPT ![w] = [Idle EXCEPT !.exhausted = pass[w].exhausted]]
    /\ UNCHANGED <<store, static, faults>>

\* the steps that open a connection (get_db_connection is called outside every try)
StoreSteps == {"select", "query", "log_assignment", "notify_rider",
               "respond", "response_update", "assign_order", "notify_user"}

\* mysql.connector.connect raises: no helper catches it, process_order_table does not
RaiseFromPass(w) ==
    /\ pass[w].pc \in StoreSteps
    /\ Fault(FALSE)
    /\ pass' = [pass EXCEPT ![w] = [@ EXCEPT !.pc = "raised", !.raised_in = pass[w].table]]
    /\ UNCHANGED <<store, static, response>>

\* except Exception in assign_orders: one try block holds both passes
HandleException(w) ==
    /\ pass[w].pc = "raised"
    /\ response' = [response EXCEPT ![w] =
          [status |-> "error", total_assigned |-> 0, total_not_assigned |-> 0]]
    /\ pass' = [pass EXCEPT ![w] = [Idle EXCEPT !.exhausted = pass[w].exhausted]]
    /\ UNCHANGED <<store, static, faults>>

Next ==
    \E w \in Workers :
        \/ StartRequest(w)
        \/ SelectOrders(w)
        \/ GeocodeAddress(w)
        \/ GetAvailableRiders(w)
        \/ LogAssignment(w)
        \/ InsertRiderNotification(w)
        \/ SimulateRiderResponse(w)
        \/ ResponseUpdate(w)
        \/ AssignOrder(w)
        \/ NotifyUser(w)
        \/ ReturnFromPass(w)
        \/ RaiseFromPass(w)
        \/ HandleException(w)

Spec == Init /\ [][Next]_vars

\* a request that can take a step takes one: the interpreter runs the handler on,
\* and every call it makes returns or raises
SpecFair == Spec /\ WF_vars(Next)

\* two requests in flight at once, with a store that does not fail
InitConcurrent == InitStore /\ faults = MaxFaults /\ geo = GeoIdle /\ ranking = RankIdle

NextConcurrent ==
    \E w \in Workers :
        \/ StartConcurrent(w)
        \/ SelectOrders(w)
        \/ GeocodeAddress(w)
        \/ GetAvailableRiders(w)
        \/ LogAssignment(w)
        \/ InsertRiderNotification(w)
        \/ SimulateRiderResponse(w)
        \/ ResponseUpdate(w)
        \/ AssignOrder(w)
        \/ NotifyUser(w)
        \/ ReturnFromPass(w)
        \/ HandleException(w)

SpecConcurrent == InitConcurrent /\ [][NextConcurrent]_vars

\* ================================================= integrated_one.py
\* The immediate-assign engine: one request, served alone.  No helper of this file
\* catches a store error, so a failing statement ends process_order_table and is
\* caught by assign_orders.
AcceptanceRates == {5, 9}

\* the provider's texts: a distance is none, "500 m", "<k> km" or "1,234 km"; a
\* duration is none, "<m> mins" or "<h> hour(s) <m> mins"
IODistTexts == DistTexts \cup {[unit |-> "km,", num |-> 1234]}

NoEta == [hours |-> 0, mins |-> 0]

EtaTexts == {NoEta, [hours |-> 0, mins |-> 25], [hours |-> 0, mins |-> 50],
             [hours |-> 1, mins |-> 5], [hours |-> 12, mins |-> 0]}

\* _parse_distance_text_to_km, in tenths of a kilometre; -1 is None ("1,234" is no
\* float)
ParseDistanceTextToKm(d) ==
    CASE d.unit = "km" -> d.num * 10
      [] d.unit = "m"  -> d.num \div 100
      [] OTHER         -> -1

\* validate_eta: the first integer of the text against the zone's window
FirstInt(e) == IF e.hours > 0 THEN e.hours ELSE e.mins

ValidateEta(e, z) ==
    LET tmin == zone_meta[z].delivery_time_min
        tmax == zone_meta[z].delivery_time_max
    IN tmin <= FirstInt(e) /\ FirstInt(e) <= tmax

\* whole + num / den with the whole part of the fraction carried over
Mixed(whole, num, den) ==
    [whole |-> whole + (num \div den), num |-> num % den, den |-> den]

\* a / b > c / d for 0 <= a < b and 0 <= c < d, by the continued fractions of the
\* two sides (no product is formed, so no intermediate value exceeds the operands)
RECURSIVE FracGreater(_, _, _, _)
FracGreater(a, b, c, d) ==
    IF a = 0 THEN FALSE
    ELSE IF c = 0 THEN TRUE
    ELSE IF b \div a # d \div c THEN b \div a < d \div c
    ELSE FracGreater(d % c, c, b % a, a)

\* a score that leaves the distance out: 0.5 * acceptance + 0.3 + 0.2 / (avg + 1)
CalculateRiderScoreNoDistance(r, dist) ==
    LET avg == IF avg_delivery_time[r] = 0 THEN 30 ELSE avg_delivery_time[r]
        den == 10 * (avg + 1)
    IN Mixed(acceptance_rate[r], 60 * (avg + 1) + 40, den)

\* calculate_rider_score: 0.5 * acceptance + 0.3 / (dist_km + 1) + 0.2 / (avg + 1),
\* times 20 and exact: acceptance + 60 / (dist + 10) + 4 / (avg + 1), with the
\* acceptance in tenths and dist in tenths of a km; avg_delivery_time 0 reads as 30
CalculateRiderScore(r, dist) ==
    LET avg == IF avg_delivery_time[r] = 0 THEN 30 ELSE avg_delivery_time[r]
        den == (dist + 10) * (avg + 1)
    IN Mixed(acceptance_rate[r], 60 * (avg + 1) + 4 * (dist + 10), den)

\* `score >= best_score`, the comparison that lets a tie replace the incumbent
ScoreGreaterOrEqual(s, t) ==
    \/ s.whole > t.whole
    \/ s.whole = t.whole /\ ~FracGreater(t.num, t.den, s.num, s.den)

\* no comparison: every gated candidate replaces the incumbent
ScoreNotCompared(s, t) == TRUE

\* `score > best_score`
ScoreGreater(s, t) ==
    \/ s.whole > t.whole
    \/ s.whole = t.whole /\ FracGreater(s.num, s.den, t.num, t.den)

\* get_riders_by_route
GetRidersByRoute(z) == {r \in Riders : <<r, z>> \in tbl_rider_routes}

\* the WHERE clause of get_available_riders, before the route filter
IOEligible ==
    {r \in Riders : /\ rider_status[r]
                    /\ is_available[r]
                    /\ active_order_count[r] < max_capacity[r]}

\* get_available_riders(zone_id)
IOAvailableRiders(z) ==
    IF z # None THEN IOEligible \cap GetRidersByRoute(z) ELSE IOEligible

\* the rows of a SELECT without ORDER BY come in any order
Orderings(S) == {s \in [1..Cardinality(S) -> S] : Range(s) = S}

InitIO ==
    /\ order_table \in [Orders -> Tables]
    /\ \A o \in Orders : o < NumOrders => order_table[o] = "tbl_normal_order"
    /\ matches = [o \in Orders |-> TRUE]
    /\ order_status = [o \in Orders |-> 0]
    /\ rid = [o \in Orders |-> None]
    /\ is_online \in [Riders -> BOOLEAN]
    /\ is_available = [r \in Riders |-> TRUE]
    /\ max_capacity = [r \in Riders |-> MaxCap]
    /\ active_order_count \in [Riders -> 0..MaxCap]
    /\ rider_status \in [Riders -> BOOLEAN]
    /\ \A r \in Riders : r < NumRiders => /\ rider_status[r] /\ is_online[r]
                                           /\ active_order_count[r] = 0
    /\ ~(rider_status[NumRiders] /\ is_online[NumRiders]) =>
           /\ active_order_count[NumRiders] = 0
           /\ rider_status[NumRiders] \/ is_online[NumRiders]
    /\ rstatus = [r \in Riders |-> 0]
    /\ tbl_rider_routes \in SUBSET (Riders \X Zones)
    /\ acceptance_rate \in [Riders -> AcceptanceRates]
    /\ \A r \in Riders : r < NumRiders => acceptance_rate[r] = 5
    /\ avg_delivery_time = [r \in Riders |-> 30]
    /\ zone_meta = [z \in Zones |-> [delivery_time_min |-> 10, delivery_time_max |-> 45]]
    /\ tbl_rider_assignments = [o \in Orders |-> NoRow]
    /\ tbl_rider_assignment = [x \in Pairs |-> 0]
    /\ tbl_rider_rejections = {}
    /\ notif_rider = [x \in Pairs |-> 0]
    /\ notif_user = [o \in Orders |-> 0]
    /\ tbl_delivery = [x \in Pairs |-> 0]
    /\ tbl_rider_performance = [r \in Riders |-> 0]
    /\ pass = [w \in Workers |-> Idle]
    /\ response = [w \in Workers |-> NoResponse]
    /\ io = IOIdle
    /\ geo = GeoIdle
    /\ ranking = RankIdle
    /\ faults = 0

IOCur == io.orders[io.i]

\* the locals after the loop body of the current order ends
IONextOrder(p) ==
    LET q == [p EXCEPT !.zone = None, !.riders = <<>>, !.j = 0, !.nearest_rider = None,
                       !.best_score = NoScore, !.rejected_riders = <<>>, !.k = 0,
                       !.scored = <<>>]
    IN IF p.i < Len(p.orders) THEN [q EXCEPT !.pc = "resolve", !.i = p.i + 1]
       ELSE [q EXCEPT !.pc = "save"]

IORaise(p, at) == [p EXCEPT !.pc = "raised", !.raised_at = at]

\* what no step of integrated_one.py changes
IOStatic == <<order_table, is_available, max_capacity, rider_status, tbl_rider_routes,
              acceptance_rate, avg_delivery_time, zone_meta, oa_vars, geo, ranking>>

IOStore == <<order_status, rid, active_order_count, rstatus, tbl_rider_assignment,
             tbl_rider_rejections, notif_rider, notif_user, tbl_delivery>>

\* GET /assign_orders of integrated_one.py
IO_StartRequest ==
    /\ io.pc = "idle"
    /\ io.result = "none"
    /\ io' = [IOIdle EXCEPT !.pc = "select"]
    /\ UNCHANGED <<IOStatic, IOStore, faults>>

\* load_zones, then SELECT * FROM <table> WHERE order_status = 0
IO_SelectOrders ==
    /\ io.pc = "select"
    /\ \E ok \in BOOLEAN :
        /\ Fault(ok)
        /\ io' = IF ~ok THEN IORaise(io, "select")
                 ELSE LET os == SetToSeq({o \in Orders : /\ order_table[o] = io.table
                                                         /\ order_status[o] = 0})
                      IN IF os = <<>> THEN [io EXCEPT !.pc = "save", !.orders = os, !.i = 0]
                         ELSE [io EXCEPT !.pc = "resolve", !.orders = os, !.i = 1]
    /\ UNCHANGED <<IOStatic, IOStore>>

\* the loop body up to the candidates: geocode_address, find_zone,
\* get_active_delivery_zone, is_within_zone, get_available_riders(zone_id) and, for
\* a subscription order, the products query.  An order without candidates is counted
\* not assigned; there is no second, unrestricted query
IO_ResolveOrder ==
    /\ io.pc = "resolve"
    /\ \E geocoded \in BOOLEAN, z \in Zones \cup {None}, active \in BOOLEAN,
          within \in BOOLEAN, ok \in BOOLEAN :
        /\ ~ok => geocoded /\ z # None
        /\ Fault(ok)
        /\ IF ~ok THEN io' = IORaise(io, "resolve")
           ELSE IF ~geocoded \/ z = None \/ ~active \/ ~within
                   \/ IOAvailableRiders(z) = {}
           THEN LET reason == IF ~geocoded THEN "invalid_address"
                              ELSE IF z = None THEN "no_zone"
                              ELSE IF ~active THEN "zone_inactive"
                              ELSE IF ~within THEN "outside_radius"
                              ELSE "no_riders"
                    zone == IF geocoded THEN z ELSE None
                IN io' = IONextOrder([io EXCEPT !.not_assigned = @ + 1,
                                                !.skipped = @ \cup {<<IOCur, reason, zone>>}])
           ELSE \E riders \in Orderings(IOAvailableRiders(z)) :
                    io' = [io EXCEPT !.pc = "score", !.zone = z, !.riders = riders,
                                     !.j = 1, !.nearest_rider = None,
                                     !.best_score = NoScore, !.rejected_riders = <<>>]
    /\ UNCHANGED <<IOStatic, IOStore>>

\* one iteration of `for r in riders`: get_distance_and_time, the two checks, the
\* score and the comparison with the best so far
IO_ScoreRider ==
    /\ io.pc = "score"
    /\ \E dist_txt \in IODistTexts, eta_txt \in EtaTexts :
        /\ dist_txt = NoDistance <=> eta_txt = NoEta
        /\ LET r == io.riders[io.j]
               dist_km == ParseDistanceTextToKm(dist_txt)
               score == CalculateRiderScore(r, dist_km)
               reject(reason) == [io EXCEPT !.rejected_riders = Append(@, <<r, reason>>)]
               p == IF dist_txt = NoDistance \/ eta_txt = NoEta
                    THEN reject("distance_eta_unavailable")
                    ELSE IF dist_km = -1 THEN reject("distance_parse_error")
                    ELSE IF ~ValidateEta(eta_txt, io.zone) THEN reject("eta_invalid")
                    ELSE LET q == [io EXCEPT !.scored =
                                      Append(@, [rider |-> r, dist_km |-> dist_km,
                                                 score |-> score, eta |-> eta_txt])]
                         IN IF ScoreGreater(score, io.best_score)
                            THEN [q EXCEPT !.nearest_rider = r, !.best_score = score]
                            ELSE [q EXCEPT !.rejected_riders = Append(@, <<r, "low_score">>)]
           IN io' = IF io.j < Len(io.riders) THEN [p EXCEPT !.j = io.j + 1]
                    ELSE IF p.nearest_rider # None THEN [p EXCEPT !.pc = "assign_order"]
                    ELSE [p EXCEPT !.pc = "log_rejections", !.k = 1,
                                   !.not_assigned = @ + 1,
                                   !.skipped = @ \cup {<<IOCur, "no_rider_selected", io.zone>>}]
    /\ UNCHANGED <<IOStatic, IOStore, faults>>

\* assign_order: five statements and a commit on one connection, without try.  A
\* failure (of the connection, a statement or the commit) leaves nothing committed
\* and raises
IO_AssignOrder ==
    /\ io.pc = "assign_order"
    /\ \E ok \in BOOLEAN :
        LET o == IOCur
            r == io.nearest_rider
        IN /\ Fault(ok)
           /\ IF ok
              THEN /\ order_status' = [order_status EXCEPT ![o] = 1]
                   /\ rid' = [rid EXCEPT ![o] = r]
                   /\ rstatus' = [rstatus EXCEPT ![r] = 1]
                   /\ active_order_count' = [active_order_count EXCEPT ![r] = @ + 1]
                   /\ tbl_rider_assignment' = [tbl_rider_assignment EXCEPT ![<<o, r>>] = @ + 1]
                   /\ tbl_delivery' = [tbl_delivery EXCEPT ![<<o, r>>] = @ + 1]
                   /\ io' = [io EXCEPT !.pc = "insert_rider_notifications"]
              ELSE /\ UNCHANGED <<order_status, rid, rstatus, active_order_count,
                                  tbl_rider_assignment, tbl_delivery>>
                   /\ io' = IORaise(io, "assign_order")
    /\ UNCHANGED <<IOStatic, tbl_rider_rejections, notif_rider, notif_user>>

\* insert_rider_notifications(order, [nearest_rider])
IO_InsertRiderNotifications ==
    /\ io.pc = "insert_rider_notifications"
    /\ \E ok \in BOOLEAN :
        /\ Fault(ok)
        /\ notif_rider' = IF ok THEN [notif_rider EXCEPT ![<<IOCur, io.nearest_rider>>] = @ + 1]
                          ELSE notif_rider
        /\ io' = IF ok THEN [io EXCEPT !.pc = "notify_user"]
                 ELSE IORaise(io, "insert_rider_notifications")
    /\ UNCHANGED <<IOStatic, order_status, rid, active_order_count, rstatus,
                   tbl_rider_assignment, tbl_rider_rejections, notif_user, tbl_delivery>>

\* notify_user, then the detail is appended and the order counted
IO_NotifyUser ==
    /\ io.pc = "notify_user"
    /\ \E ok \in BOOLEAN :
        /\ Fault(ok)
        /\ notif_user' = IF ok THEN [notif_user EXCEPT ![IOCur] = @ + 1] ELSE notif_user
        /\ io' = IF ~ok THEN IORaise(io, "notify_user")
                 ELSE [io EXCEPT !.pc = "log_rejections", !.k = 1,
                                 !.assigned = @ + 1,
                                 !.assigned_orders =
                                     Append(@, [order_id |-> IOCur, zone |-> io.zone,
                                                assigned_rider |-> io.nearest_rider])]
    /\ UNCHANGED <<IOStatic, order_status, rid, active_order_count, rstatus,
                   tbl_rider_assignment, tbl_rider_rejections, notif_rider, tbl_delivery>>

\* one iteration of `for rider_id, reason in rejected_riders`: log_rider_rejection
\* for every rider but the selected one
IO_LogRiderRejection ==
    /\ io.pc = "log_rejections"
    /\ io.k <= Len(io.rejected_riders)
    /\ \E ok \in BOOLEAN :
        LET x == io.rejected_riders[io.k]
            skip == x[1] = io.nearest_rider
        IN /\ ~ok => ~skip
           /\ Fault(ok)
           /\ tbl_rider_rejections' =
                  IF ok /\ ~skip THEN tbl_rider_rejections \cup {<<IOCur, x[1], x[2]>>}
                  ELSE tbl_rider_rejections
           /\ io' = IF ok THEN [io EXCEPT !.k = @ + 1] ELSE IORaise(io, "log_rider_rejection")
    /\ UNCHANGED <<IOStatic, order_status, rid, active_order_count, rstatus,
                   tbl_rider_assignment, notif_rider, notif_user, tbl_delivery>>

\* the loop body ends
IO_EndOrder ==
    /\ io.pc = "log_rejections"
    /\ io.k > Len(io.rejected_riders)
    /\ io' = IONextOrder(io)
    /\ UNCHANGED <<IOStatic, IOStore, faults>>

\* process_order_table returns; assign_orders starts the second pass or answers
IO_ReturnFromPass ==
    /\ io.pc = "save"
    /\ io' = IF io.table = "tbl_normal_order"
             THEN [IOIdle EXCEPT !.pc = "select", !.table = "tbl_subscribe_order",
                                 !.a1 = io.assigned, !.n1 = io.not_assigned,
                                 !.list1 = io.assigned_orders]
             ELSE [IOIdle EXCEPT !.pc = "done", !.result = "success",
                                 !.assigned = io.a1 + io.assigned,
                                 !.not_assigned = io.n1 + io.not_assigned,
                                 !.assigned_orders = io.list1 \o io.assigned_orders]
    /\ UNCHANGED <<IOStatic, IOStore, faults>>

\* except Exception in assign_orders: {"error": ...}
IO_HandleException ==
    /\ io.pc = "raised"
    /\ io' = [IOIdle EXCEPT !.pc = "done", !.result = "error", !.raised_at = io.raised_at]
    /\ UNCHANGED <<IOStatic, IOStore, faults>>

NextIO ==
    \/ IO_StartRequest
    \/ IO_SelectOrders
    \/ IO_ResolveOrder
    \/ IO_ScoreRider
    \/ IO_AssignOrder
    \/ IO_InsertRiderNotifications
    \/ IO_NotifyUser
    \/ IO_LogRiderRejection
    \/ IO_EndOrder
    \/ IO_ReturnFromPass
    \/ IO_HandleException

SpecIO == InitIO /\ [][NextIO]_vars

SpecIOFair == SpecIO /\ WF_vars(NextIO)

\* ================================================= timepass.py
\* The same immediate-assign engine in its other file.  get_db_connection returns
\* None instead of raising and the helpers return at once without a connection; the
\* writing helpers catch mysql.connector.Error and roll back, the reading ones do
\* not.  A store call ends in one of three ways.
Outcomes == {"ok", "no_conn", "error"}

\* the distance of timepass.process_order_table, in tenths of a kilometre:
\* float(dist.replace(' km', '').replace(',', '')), and 999999 when that raises
TPParseDistance(d) ==
    CASE d.unit = "km"  -> d.num * 10
      [] d.unit = "km," -> d.num * 10
      [] OTHER          -> 9999990

\* timepass.validate_eta: int() of the text without " mins" / " min"; a text with
\* hours is no integer and fails the gate
TPValidateEta(e, z) ==
    /\ e.hours = 0
    /\ zone_meta[z].delivery_time_min <= e.mins
    /\ e.mins <= zone_meta[z].delivery_time_max

\* timepass.get_available_riders(zone_id): the route filter is commented out
TPAvailableRiders(z) == IOEligible

TP_StartRequest ==
    /\ io.pc = "idle"
    /\ io.result = "none"
    /\ io' = [IOIdle EXCEPT !.pc = "select"]
    /\ UNCHANGED <<IOStatic, IOStore, faults>>

\* load_zones, then SELECT * FROM <table> WHERE order_status = 0.  Without a
\* connection the pass returns (0, 0, []); a failing statement raises
TP_SelectOrders ==
    /\ io.pc = "select"
    /\ \E out \in Outcomes :
        /\ Fault(out = "ok")
        /\ io' = IF out = "error" THEN IORaise(io, "select")
                 ELSE IF out = "no_conn" THEN [io EXCEPT !.pc = "save", !.orders = <<>>, !.i = 0]
                 ELSE LET os == SetToSeq({o \in Orders : /\ order_table[o] = io.table
                                                         /\ order_status[o] = 0})
                      IN IF os = <<>> THEN [io EXCEPT !.pc = "save", !.orders = os, !.i = 0]
                         ELSE [io EXCEPT !.pc = "resolve", !.orders = os, !.i = 1]
    /\ UNCHANGED <<IOStatic, IOStore>>

\* the loop body up to the candidates: geocode_address, find_zone,
\* get_active_delivery_zone, get_available_riders(zone_id) and, for a subscription
\* order, the products query.  Only an order without candidates is counted not
\* assigned; the other skips leave both counters alone
TP_ResolveOrder ==
    /\ io.pc = "resolve"
    /\ \E geocoded \in BOOLEAN, z \in Zones \cup {None}, active \in BOOLEAN,
          out \in Outcomes, at \in {"zone_meta", "riders", "products"} :
        LET meta_fail == out # "ok" /\ at = "zone_meta"
            riders_fail == out # "ok" /\ at = "riders"
            products_fail == out # "ok" /\ at = "products"
            reached_meta == geocoded /\ z # None
            reached_riders == reached_meta /\ ~meta_fail /\ active
            reached_products == /\ reached_riders /\ ~riders_fail
                                /\ TPAvailableRiders(z) # {}
                                /\ io.table = "tbl_subscribe_order"
            drop(reason) == IONextOrder([io EXCEPT !.dropped = @ \cup {<<IOCur, reason, z>>}])
        IN /\ out # "ok" => \/ reached_meta /\ meta_fail
                            \/ reached_riders /\ riders_fail
                            \/ reached_products /\ products_fail
           /\ Fault(out = "ok")
           /\ IF out = "error" THEN io' = IORaise(io, "resolve")
              ELSE IF ~geocoded THEN io' = drop("invalid_address")
              ELSE IF z = None THEN io' = drop("no_zone")
              ELSE IF meta_fail \/ ~active THEN io' = drop("zone_inactive")
              ELSE IF riders_fail \/ TPAvailableRiders(z) = {}
              THEN io' = IONextOrder([io EXCEPT !.not_assigned = @ + 1,
                                                !.skipped = @ \cup {<<IOCur, "no_riders", z>>}])
              ELSE IF products_fail THEN io' = drop("no_connection")
              ELSE \E riders \in Orderings(TPAvailableRiders(z)) :
                       io' = [io EXCEPT !.pc = "score", !.zone = z, !.riders = riders,
                                        !.j = 1, !.nearest_rider = None,
                                        !.best_score = NoScore, !.rejected_riders = <<>>]
    /\ UNCHANGED <<IOStatic, IOStore>>

\* one iteration of `for r in riders`; a candidate that takes the lead sends the
\* previous leader to rejected_riders
TP_ScoreRider ==
    /\ io.pc = "score"
    /\ \E dist_txt \in IODistTexts, eta_txt \in EtaTexts :
        /\ dist_txt = NoDistance <=> eta_txt = NoEta
        /\ LET r == io.riders[io.j]
               dist_km == TPParseDistance(dist_txt)
               score == CalculateRiderScore(r, dist_km)
               reject(reason) == [io EXCEPT !.rejected_riders = Append(@, <<r, reason>>)]
               p == IF dist_txt = NoDistance THEN reject("distance_eta_unavailable")
                    ELSE IF ~TPValidateEta(eta_txt, io.zone) THEN reject("eta_invalid")
                    ELSE LET q == [io EXCEPT !.scored =
                                      Append(@, [rider |-> r, dist_km |-> dist_km,
                                                 score |-> score, eta |-> eta_txt])]
                         IN IF ScoreGreater(score, io.best_score)
                            THEN [q EXCEPT !.nearest_rider = r, !.best_score = score,
                                           !.rejected_riders =
                                               IF io.nearest_rider # None
                                               THEN Append(@, <<io.nearest_rider, "low_score">>)
                                               ELSE @]
                            ELSE [q EXCEPT !.rejected_riders = Append(@, <<r, "low_score">>)]
           IN io' = IF io.j < Len(io.riders) THEN [p EXCEPT !.j = io.j + 1]
                    ELSE IF p.nearest_rider # None THEN [p EXCEPT !.pc = "assign_order"]
                    ELSE [p EXCEPT !.pc = "log_rejections", !.k = 1,
                                   !.not_assigned = @ + 1,
                                   !.skipped = @ \cup {<<IOCur, "no_rider_selected", io.zone>>}]
    /\ UNCHANGED <<IOStatic, IOStore, faults>>

\* what no step of timepass.py changes, and the tables it writes
TPStatic == <<order_table, matches, is_online, is_available, max_capacity, rider_status,
              rstatus, tbl_rider_routes, acceptance_rate, avg_delivery_time, zone_meta,
              tbl_rider_assignment, tbl_delivery, tbl_rider_performance, pass, response,
              geo, ranking>>

\* timepass.assign_order: three statements and a commit inside try; without a
\* connection it returns at once, on mysql.connector.Error it rolls back.  The
\* caller goes on in every case
TP_AssignOrder ==
    /\ io.pc = "assign_order"
    /\ \E out \in Outcomes :
        LET o == IOCur
            r == io.nearest_rider
        IN /\ Fault(out = "ok")
           /\ IF out = "ok"
              THEN /\ order_status' = [order_status EXCEPT ![o] = 1]
                   /\ rid' = [rid EXCEPT ![o] = r]
                   /\ active_order_count' = [active_order_count EXCEPT ![r] = @ + 1]
                   /\ tbl_rider_assignments' =
                          [tbl_rider_assignments EXCEPT
                              ![o] = [rider_id |-> r, status |-> "pending"]]
              ELSE UNCHANGED <<order_status, rid, active_order_count, tbl_rider_assignments>>
    /\ io' = [io EXCEPT !.pc = "insert_rider_notifications"]
    /\ UNCHANGED <<TPStatic, tbl_rider_rejections, notif_rider, notif_user>>

\* timepass.insert_rider_notifications(order, [nearest_rider])
TP_InsertRiderNotifications ==
    /\ io.pc = "insert_rider_notifications"
    /\ \E out \in Outcomes :
        /\ Fault(out = "ok")
        /\ notif_rider' = IF out = "ok"
                          THEN [notif_rider EXCEPT ![<<IOCur, io.nearest_rider>>] = @ + 1]
                          ELSE notif_rider
    /\ io' = [io EXCEPT !.pc = "notify_user"]
    /\ UNCHANGED <<TPStatic, order_status, rid, active_order_count, tbl_rider_assignments,
                   tbl_rider_rejections, notif_user>>

\* timepass.notify_user, then the detail is appended and the order counted
TP_NotifyUser ==
    /\ io.pc = "notify_user"
    /\ \E out \in Outcomes :
        /\ Fault(out = "ok")
        /\ notif_user' = IF out = "ok" THEN [notif_user EXCEPT ![IOCur] = @ + 1]
                         ELSE notif_user
    /\ io' = [io EXCEPT !.pc = "log_rejections", !.k = 1, !.assigned = @ + 1,
                        !.assigned_orders =
                            Append(@, [order_id |-> IOCur, zone |-> io.zone,
                                       assigned_rider |-> io.nearest_rider])]
    /\ UNCHANGED <<TPStatic, order_status, rid, active_order_count, tbl_rider_assignments,
                   tbl_rider_rejections, notif_rider>>

\* one iteration of `for rider_id, reason in rejected_riders`: log_rider_rejection
TP_LogRiderRejection ==
    /\ io.pc = "log_rejections"
    /\ io.k <= Len(io.rejected_riders)
    /\ \E out \in Outcomes :
        LET x == io.rejected_riders[io.k]
        IN /\ Fault(out = "ok")
           /\ tbl_rider_rejections' =
                  IF out = "ok" THEN tbl_rider_rejections \cup {<<IOCur, x[1], x[2]>>}
                  ELSE tbl_rider_rejections
    /\ io' = [io EXCEPT !.k = @ + 1]
    /\ UNCHANGED <<TPStatic, order_status, rid, active_order_count, tbl_rider_assignments,
                   notif_rider, notif_user>>

\* the loop body ends
TP_EndOrder ==
    /\ io.pc = "log_rejections"
    /\ io.k > Len(io.rejected_riders)
    /\ io' = IONextOrder(io)
    /\ UNCHANGED <<IOStatic, IOStore, faults>>

\* process_order_table returns; assign_orders starts the second pass or answers
TP_ReturnFromPass ==
    /\ io.pc = "save"
    /\ io' = IF io.table = "tbl_normal_order"
             THEN [IOIdle EXCEPT !.pc = "select", !.table = "tbl_subscribe_order",
                                 !.a1 = io.assigned, !.n1 = io.not_assigned,
                                 !.list1 = io.assigned_orders]
             ELSE [IOIdle EXCEPT !.pc = "done", !.result = "success",
                                 !.assigned = io.a1 + io.assigned,
                                 !.not_assigned = io.n1 + io.not_assigned,
                                 !.assigned_orders = io.list1 \o io.assigned_orders]
    /\ UNCHANGED <<IOStatic, IOStore, faults>>

\* except Exception in assign_orders: {"error": ...}, 500
TP_HandleException ==
    /\ io.pc = "raised"
    /\ io' = [IOIdle EXCEPT !.pc = "done", !.result = "error", !.raised_at = io.raised_at]
    /\ UNCHANGED <<IOStatic, IOStore, faults>>

NextTP ==
    \/ TP_StartRequest
    \/ TP_SelectOrders
    \/ TP_ResolveOrder
    \/ TP_ScoreRider
    \/ TP_AssignOrder
    \/ TP_InsertRiderNotifications
    \/ TP_NotifyUser
    \/ TP_LogRiderRejection
    \/ TP_EndOrder
    \/ TP_ReturnFromPass
    \/ TP_HandleException

SpecTP == InitIO /\ [][NextTP]_vars

\* ================================================= load_zones and find_zone
Engines == {"order_assign", "integrated_one", "timepass"}

\* {"type": "Polygon", "coordinates": [ring]}, [[a, b], ...], "(a,b),(a,b),...",
\* {"type": "polygon", "coordinates": [[a, b], ...]}
Encodings == {"geojson", "list", "text", "polygon"}

\* the rectangle of the zone near Pune, and one east of the 90th meridian
Boxes == {[w |-> 73740, e |-> 73750, s |-> 18610, n |-> 18620],
          [w |-> 91740, e |-> 91750, s |-> 26140, n |-> 26150]}

\* the stored pairs of a rectangle, corner by corner
Ring(box, axis) ==
    LET corners == << <<box.w, box.s>>, <<box.e, box.s>>, <<box.e, box.n>>, <<box.w, box.n>> >>
    IN IF axis = "lnglat" THEN corners
       ELSE [n \in 1..4 |-> <<corners[n][2], corners[n][1]>>]

Swap(ring) == [n \in 1..Len(ring) |-> <<ring[n][2], ring[n][1]>>]

\* the pairs a row holds: the four corners in order, the four corners with the
\* second and the third exchanged (the outline crosses itself), or two corners
Shapes == {"rectangle", "bowtie", "segment"}

Stored(box, axis, shape) ==
    LET r == Ring(box, axis)
    IN CASE shape = "rectangle" -> r
         [] shape = "bowtie"    -> <<r[1], r[3], r[2], r[4]>>
         [] OTHER               -> <<r[1], r[2]>>

\* the guess of integrated_one.load_zones on the first pair of a JSON list:
\* -90 <= a <= 90 and -180 <= b <= 180 reads the list as [lat, lng]
LooksLatFirst(first) ==
    /\ -90000 <= first[1] /\ first[1] <= 90000
    /\ -180000 <= first[2] /\ first[2] <= 180000

\* integrated_one.load_zones on one row: the (x, y) vertices of the polygon, or <<>>
\* when the row is skipped.  A text that is no JSON makes json.loads raise, and the
\* row is skipped before the text parser is tried; the pairs of a "polygon"
\* dictionary cannot be unpacked as a ring
IOLoadZone(encoding, ring) ==
    CASE encoding = "geojson" -> ring
      [] encoding = "list" -> IF LooksLatFirst(ring[1]) THEN Swap(ring) ELSE ring
      [] OTHER -> <<>>

\* order_assign.load_zones on one row: only {"type": "polygon"} is read, each pair c
\* as (c[1], c[0])
OALoadZone(encoding, ring) ==
    IF encoding = "polygon" THEN Swap(ring) ELSE <<>>

\* timepass.load_zones on one row: only the text "(a,b),(a,b),..." splits into
\* numbers, each pair c read as (c[1], c[0]); any other value raises inside the try
\* and the row is skipped
TPLoadZone(encoding, ring) ==
    IF encoding = "text" THEN Swap(ring) ELSE <<>>

\* shapely's Polygon(pts).is_valid for the outlines above: at least three points and
\* no two sides that cross
Orient(a, b, c) == (b[1] - a[1]) * (c[2] - a[2]) - (b[2] - a[2]) * (c[1] - a[1])

Crosses(a, b, c, d) ==
    /\ Orient(a, b, c) * Orient(a, b, d) < 0
    /\ Orient(c, d, a) * Orient(c, d, b) < 0

IsValid(pts) ==
    /\ Len(pts) >= 3
    /\ \A n, m \in 1..Len(pts) :
           LET nn == (n % Len(pts)) + 1
               mm == (m % Len(pts)) + 1
           IN ~Crosses(pts[n], pts[nn], pts[m], pts[mm])

\* a loaded zone whose polygon is the outline it was built from and is valid; the
\* result of buffer(0) is valid, and its outline is the library's
WellFormed(z) == ~z.repaired /\ IsValid(z.polygon)

\* shapely's Polygon(pts).contains(Point(x, y)) for a rectangle with sides along the
\* axes: the interior only, no point of the boundary
MinOf(S) == CHOOSE x \in S : \A y \in S : x <= y

MaxOf(S) == CHOOSE x \in S : \A y \in S : x >= y

Xs(pts) == {pts[n][1] : n \in 1..Len(pts)}

Ys(pts) == {pts[n][2] : n \in 1..Len(pts)}

Covers(pts, x, y) ==
    /\ MinOf(Xs(pts)) <= x /\ x <= MaxOf(Xs(pts))
    /\ MinOf(Ys(pts)) <= y /\ y <= MaxOf(Ys(pts))

Contains(pts, x, y) ==
    /\ MinOf(Xs(pts)) < x /\ x < MaxOf(Xs(pts))
    /\ MinOf(Ys(pts)) < y /\ y < MaxOf(Ys(pts))

\* the point find_zone builds: Point(lng, lat) in integrated_one.py and timepass.py,
\* Point(lat, lng) in order_assign.py
QueryPoint(engine, lat, lng) ==
    IF engine = "order_assign" THEN <<lat, lng>> ELSE <<lng, lat>>

\* find_zone: the first zone whose polygon contains the point, or None
FindZoneIn(zones, p) ==
    IF \E n \in 1..Len(zones) : Contains(zones[n].polygon, p[1], p[2])
    THEN zones[MinOf({n \in 1..Len(zones) : Contains(zones[n].polygon, p[1], p[2])})].id
    ELSE None

\* what find_zone can return.  contains on a polygon that is not valid, or on what
\* buffer(0) made of one, is the library's answer for a point within the outline's
\* extent: either one
FindZoneResults(zones, p) ==
    IF \A n \in 1..Len(zones) : WellFormed(zones[n])
    THEN {FindZoneIn(zones, p)}
    ELSE {None} \cup {zones[n].id : n \in {k \in 1..Len(zones) :
                                              Covers(zones[k].polygon, p[1], p[2])}}

\* the points tried: the middle of the rectangle, its edges and corners, and five
\* thousandths of a degree outside
Offsets == {-5, 0, 5, 10, 15}

GeoInit ==
    \E engine \in Engines, encoding \in Encodings, box \in Boxes,
       axis \in {"lnglat", "latlng"}, shape \in Shapes, id \in Zones,
       dx \in Offsets, dy \in Offsets :
        geo = [GeoIdle EXCEPT !.pc = "load", !.engine = engine, !.encoding = encoding,
                              !.axis = axis, !.shape = shape, !.box = box, !.id = id,
                              !.lng = box.w + dx, !.lat = box.s + dy]

InitZone ==
    /\ InitStore
    /\ \A o \in Orders : order_table[o] = "tbl_normal_order" /\ matches[o]
    /\ \A r \in Riders : is_online[r] /\ active_order_count[r] = 0
    /\ faults = 0
    /\ GeoInit
    /\ ranking = RankIdle

\* load_zones: the rows that parse to at least three points become polygons
\* (integrated_one.py skips a shorter list, Polygon() raises on one inside the try of
\* the other two); only integrated_one.py looks at is_valid, and replaces a polygon
\* that is not valid by its buffer(0)
LoadZones ==
    /\ geo.pc = "load"
    /\ LET ring == Stored(geo.box, geo.axis, geo.shape)
           pts == CASE geo.engine = "integrated_one" -> IOLoadZone(geo.encoding, ring)
                    [] geo.engine = "timepass"       -> TPLoadZone(geo.encoding, ring)
                    [] OTHER                         -> OALoadZone(geo.encoding, ring)
       IN geo' = [geo EXCEPT !.pc = "find",
                             !.zones = IF Len(pts) < 3 THEN <<>>
                                       ELSE <<[id |-> geo.id, polygon |-> pts,
                                               repaired |-> /\ geo.engine = "integrated_one"
                                                            /\ ~IsValid(pts)]>>]
    /\ UNCHANGED <<store, order_table, matches, is_online, is_available, max_capacity,
                   pass, response, faults, rider_status, rstatus, tbl_rider_routes,
                   acceptance_rate, avg_delivery_time, zone_meta, tbl_rider_assignment, io,
                   ranking>>

\* find_zone(lat, lng, zones)
FindZoneOfPoint ==
    /\ geo.pc = "find"
    /\ \E result \in FindZoneResults(geo.zones, QueryPoint(geo.engine, geo.lat, geo.lng)) :
           geo' = [geo EXCEPT !.pc = "found", !.result = result]
    /\ UNCHANGED <<store, order_table, matches, is_online, is_available, max_capacity,
                   pass, response, faults, rider_status, rstatus, tbl_rider_routes,
                   acceptance_rate, avg_delivery_time, zone_meta, tbl_rider_assignment, io,
                   ranking>>

NextZone ==
    \/ LoadZones
    \/ FindZoneOfPoint

SpecZone == InitZone /\ [][NextZone]_vars

\* ================================================= the ranking of the candidates
\* get_available_riders after its SQL query, and the loop of process_order_table
\* over the list it returns
NumRows == 3

Rows == 1..NumRows

RankInit ==
    \E on_route \in SUBSET Rows, dist \in [Rows -> IODistTexts] :
        ranking = [RankIdle EXCEPT !.pc = "rank", !.riders = Rows,
                                   !.on_route = on_route, !.dist = dist]

InitRank ==
    /\ InitStore
    /\ \A o \in Orders : order_table[o] = "tbl_normal_order" /\ matches[o]
    /\ \A r \in Riders : is_online[r] /\ active_order_count[r] = 0
    /\ faults = 0
    /\ geo = GeoIdle
    /\ RankInit

\* what neither step of the ranking changes
RankStatic == <<store, order_table, matches, is_online, is_available, max_capacity,
                pass, response, faults, rider_status, rstatus, tbl_rider_routes,
                acceptance_rate, avg_delivery_time, zone_meta, tbl_rider_assignment, io,
                geo>>

\* the loop that keeps the riders with a distance text, and the sort; float() of a
\* text in metres raises in the sort key
RankRiders ==
    /\ ranking.pc = "rank"
    /\ LET near == {r \in ranking.riders : ranking.dist[r] # NoDistance}
           sorted == SortRiders(near, ranking.on_route, ranking.dist)
       IN ranking' = IF \E r \in near : ranking.dist[r].unit = "m"
                     THEN [ranking EXCEPT !.pc = "raised"]
                     ELSE IF sorted = <<>> THEN [ranking EXCEPT !.pc = "done"]
                     ELSE [ranking EXCEPT !.pc = "offer", !.nearby = sorted]
    /\ UNCHANGED RankStatic

\* one iteration of `for rider in nearby_riders`: the rider is offered the order;
\* the loop ends on an acceptance or with the list
OfferNext ==
    /\ ranking.pc = "offer"
    /\ \E accepted \in BOOLEAN :
           ranking' = [ranking EXCEPT
               !.j = @ + 1,
               !.offered = Append(@, ranking.nearby[ranking.j + 1]),
               !.pc = IF accepted \/ ranking.j + 1 = Len(ranking.nearby)
                      THEN "done" ELSE "offer"]
    /\ UNCHANGED RankStatic

NextRank ==
    \/ RankRiders
    \/ OfferNext

SpecRank == InitRank /\ [][NextRank]_vars

\* ================================================================ claims
\* number of committed assign_order calls for an order: each commit inserts one
\* tbl_delivery row
RECURSIVE SumOver(_, _)
SumOver(f, S) == IF S = {} THEN 0
                 ELSE LET x == CHOOSE y \in S : TRUE IN f[x] + SumOver(f, S \ {x})

CommitsOf(o) == SumOver(tbl_delivery, {o} \X Riders)

Fetched(w) == Range(pass[w].orders)

DetailIds(w) == {pass[w].assigned_orders[k].id : k \in 1..Len(pass[w].assigned_orders)}

\* C1: for every courier, in every reachable state, active_order_count <= max_capacity,
\* also when two passes interleave.
C1_CapacityInvariant ==
    \A r \in Riders : active_order_count[r] <= max_capacity[r]

\* C2: an order goes from pending to assigned at most once: once order_status is 1
\* no further assignment is committed for the order and its courier id is not rewritten.
C2_AssignedOnce ==
    [][\A o \in Orders :
         order_status[o] = 1 => rid'[o] = rid[o] /\ CommitsOf(o)' = CommitsOf(o)]_vars

\* C3: assign_order is all-or-nothing: a call in which a statement (or the commit)
\* fails leaves order_status, the courier id, active_order_count, the delivery rows,
\* the performance rows and the assignment rows exactly as they were.
C3_AssignOrderAllOrNothing ==
    [][\A w \in Workers :
         (pass[w].pc = "assign_order" /\ pass'[w].rolled_back # pass[w].rolled_back)
         => UNCHANGED store]_vars

\* C3 witness: the delivery insert failed after the two updates had been executed,
\* and the order is pending with no courier and no delivery row.
C3_Witness ==
    \E w \in Workers, o \in Orders :
        /\ <<o, "insert_delivery">> \in pass[w].rolled_back
        /\ pass[w].pc = "notify_user"
        /\ order_status[o] = 0 /\ rid[o] = None /\ CommitsOf(o) = 0

\* C4: an order whose commit failed in this pass is not listed in the pass's
\* assigned-order details (and so not counted in assigned).
C4_FailedCommitNotCounted ==
    \A w \in Workers : \A x \in pass[w].rolled_back : x[1] \notin DetailIds(w)

\* C5: an Assignment row with status accepted exists for (order, courier) exactly
\* when the order has order_status 1 with that courier id.
C5_AcceptedIffCommitted ==
    \A o \in Orders, r \in Riders :
        tbl_rider_assignments[o] = [rider_id |-> r, status |-> "accepted"]
        <=> (order_status[o] = 1 /\ rid[o] = r)

NoPendingRow(t) ==
    \A o \in Orders : (order_table[o] = t /\ matches[o]) => order_status[o] = 1

AboutOrder(o) == <<order_status[o], rid[o], tbl_rider_assignments[o],
                   [r \in Riders |-> notif_rider[<<o, r>>]], notif_user[o],
                   [r \in Riders |-> tbl_delivery[<<o, r>>]],
                   {x \in tbl_rider_rejections : x[1] = o}>>

\* C7: an order that is already assigned when a pass selects its orders is not
\* fetched by that pass; a pass writes only about the order it is processing, which
\* is one it fetched; and only fetched orders are listed in its details.
C7_AssignedOrderUntouched ==
    /\ [][\A w \in Workers, o \in Orders :
            /\ (pass[w].pc = "select" /\ pass'[w] # pass[w] /\ order_status[o] = 1)
               => o \notin Range(pass'[w].orders)
            /\ (pass'[w] # pass[w] /\ AboutOrder(o)' # AboutOrder(o))
               => (pass[w].i \in 1..Len(pass[w].orders) /\ o = Cur(w))]_vars
    /\ [](\A w \in Workers : DetailIds(w) \subseteq Fetched(w))

\* C7 witness: the second pass has fetched its orders and an order that was assigned
\* before is not among them.
C7_Witness ==
    /\ pass["w2"].pc = "geocode"
    /\ \E o \in Orders :
         /\ order_table[o] = pass["w2"].table /\ matches[o]
         /\ order_status[o] = 1 /\ o \notin Fetched("w2")

\* C9: when process_order_table is about to return, assigned + not_assigned equals
\* the number of pending orders it selected.
C9_EveryOrderCounted ==
    \A w \in Workers :
        pass[w].pc = "save" => pass[w].assigned + pass[w].not_assigned = Len(pass[w].orders)

\* C10: process_order_table never raises past the batch boundary.
C10_NeverRaises ==
    \A w \in Workers : pass[w].pc # "raised"


\* C8: when the query restricted to the routes of an order's resolved zone returns no
\* courier while the unrestricted query returns one, the order is not failed for lack
\* of candidates: the query is run again city-wide and the order goes to one of its
\* couriers, with the resolved zone in its detail.  As a property of every step: an
\* order is counted not assigned for lack of candidates only when no courier is
\* eligible city-wide.
C8_CityWideFallback ==
    [][\A x \in io'.skipped \ io.skipped :
           (x[2] = "no_riders" /\ IOAvailableRiders(x[3]) = {}) => IOAvailableRiders(None) = {}]_vars


\* C11: notifications are fire-and-forget.  A failure while the courier notification
\* or the user notification of an order is recorded does not end the pass: no
\* request is answered with an error because of it, and the pass is never left at
\* either call.
NotificationCalls == {"insert_rider_notifications", "notify_user"}

C11_NotificationsFireAndForget == io.raised_at \notin NotificationCalls

\* C12: a routing failure does not by itself prevent the assignment.  When the order
\* has one candidate, that candidate is never rejected because the provider gave no
\* distance: a straight-line distance takes its place.
C12_RoutingFallback ==
    Len(io.riders) = 1 =>
        \A n \in 1..Len(io.rejected_riders) :
            io.rejected_riders[n][2] # "distance_eta_unavailable"

\* one score is larger than another
Exceeds(s, t) ==
    \/ s.whole > t.whole
    \/ s.whole = t.whole /\ FracGreater(s.num, s.den, t.num, t.den)

\* the entries of `scored` with a maximal score, by position
MaxScored == {n \in 1..Len(io.scored) :
                 \A m \in 1..Len(io.scored) :
                     ~Exceeds(io.scored[m].score, io.scored[n].score)}

FirstMaxScored == CHOOSE n \in MaxScored : \A m \in MaxScored : n <= m

SelectedSteps == {"assign_order", "insert_rider_notifications", "notify_user"}

SameMetrics(a, b) == /\ acceptance_rate[a] = acceptance_rate[b]
                     /\ avg_delivery_time[a] = avg_delivery_time[b]

Distances == 0..(MaxKm * 10)

C16_BoundaryInclusive ==
    (geo.pc = "found" /\ geo.shape = "rectangle" /\ geo.zones # <<>>) =>
        LET p == QueryPoint(geo.engine, geo.lat, geo.lng)
        IN IF Covers(geo.zones[1].polygon, p[1], p[2])
           THEN geo.result = geo.zones[1].id
           ELSE geo.result = None

\* C17: the zone stored with the longitude-first ring (73.74, 18.61), (73.75, 18.61),
\* (73.75, 18.62), (73.74, 18.62), as a GeoJSON ring or as a JSON list of pairs, is
\* the zone of the point longitude 73.745, latitude 18.615: vertices and query point
\* are put in the same axis order by a fixed convention.
C17_LongitudeFirstRing ==
    (/\ geo.pc = "found"
     /\ geo.engine = "integrated_one"
     /\ geo.encoding \in {"geojson", "list"}
     /\ geo.axis = "lnglat"
     /\ geo.shape = "rectangle"
     /\ geo.box = [w |-> 73740, e |-> 73750, s |-> 18610, n |-> 18620]
     /\ geo.lng = 73745 /\ geo.lat = 18615)
        => geo.result = geo.id


\* C18: an order whose geocoded point lies inside no active zone is excluded as
\* out of the service area: no courier is queried or offered for it and nothing is
\* committed for it.  No step of the offer cascade or of the commit is taken for an
\* order without a zone.
OfferSteps == {"log_assignment", "notify_rider", "respond", "response_update",
               "assign_order", "notify_user"}

C18_NoZoneExcluded ==
    \A w \in Workers : pass[w].pc \in OfferSteps => pass[w].zone # None

\* C19: every courier that is offered or assigned an order satisfied the base
\* predicate when the candidates of the order were queried: courier status active,
\* online, available, and active_order_count < max_capacity.  The store does not
\* change between the query and the commit of a request served alone.
BasePredicate(r) ==
    /\ rider_status[r]
    /\ is_online[r]
    /\ is_available[r]
    /\ active_order_count[r] < max_capacity[r]

C19_BasePredicate ==
    io.pc = "assign_order" => BasePredicate(io.nearest_rider)

\* C20: every courier that get_available_riders returns for a zone id has a
\* registered route covering that zone.
C20_RouteCoversZone ==
    io.pc = "score" => \A n \in 1..Len(io.riders) : <<io.riders[n], io.zone>> \in tbl_rider_routes


\* the duration a text of the provider stands for, in minutes
EtaMinutes(e) == 60 * e.hours + e.mins

\* C21: with the ETA gate on, no courier whose route duration in minutes lies outside
\* the zone's [delivery_time_min, delivery_time_max] window passes the gate, whatever
\* duration the provider reports, durations of one hour or more included: every
\* candidate that was scored for the order has its duration inside the window.
C21_EtaWindow ==
    \A n \in 1..Len(io.scored) :
        /\ zone_meta[io.zone].delivery_time_min <= EtaMinutes(io.scored[n].eta)
        /\ EtaMinutes(io.scored[n].eta) <= zone_meta[io.zone].delivery_time_max


\* the couriers with a Rejection recorded for order o
RejectionsOf(o) == {x[2] : x \in {y \in tbl_rider_rejections : y[1] = o}}

\* C22: when the loop body of an order ends, each candidate that was evaluated for
\* the order and not selected has a Rejection recorded for the (order, courier) pair,
\* a candidate that led and was displaced by a higher score included, and the
\* selected courier has none.
C22_EveryLoserRejected ==
    (io.pc = "log_rejections" /\ io.k > Len(io.rejected_riders)) =>
        /\ \A n \in 1..Len(io.riders) :
               io.riders[n] # io.nearest_rider => io.riders[n] \in RejectionsOf(IOCur)
        /\ io.nearest_rider \notin RejectionsOf(IOCur)


\* C23: in the offer-and-wait cascade, when a courier rejects an offer a Rejection
\* with reason rejected_by_courier is recorded for the (order, courier) pair, and the
\* next candidate in ranked order is the next one offered the order.
C23_RejectionRecorded ==
    [][\A w \in Workers :
         /\ (/\ pass[w].pc = "respond"
             /\ pass'[w].pc = "response_update"
             /\ pass'[w].response_status = "rejected")
            => <<Cur(w), CurRider(w), "rejected_by_courier">> \in tbl_rider_rejections'
         /\ (/\ pass[w].pc = "response_update"
             /\ pass[w].response_status = "rejected"
             /\ pass[w].j < Len(pass[w].nearby)
             /\ pass'[w].pc # "raised"
             /\ pass'[w] # pass[w])
            => /\ pass'[w].pc = "log_assignment"
               /\ pass'[w].i = pass[w].i
               /\ pass'[w].nearby = pass[w].nearby
               /\ pass'[w].j = pass[w].j + 1]_vars


\* C24: when every candidate of an order has been offered it and none accepted, or
\* there was no candidate, the order is counted in not_assigned by that step, its
\* order_status stays 0 and its courier id stays unset for the rest of the request,
\* no courier's active_order_count changes, and the next request's pass over the
\* order's table selects the order again.
C24_ExhaustedStaysPending ==
    /\ [][\A w \in Workers, o \in Orders :
            /\ (o \in pass'[w].exhausted /\ o \notin pass[w].exhausted)
               => /\ pass[w].i \in 1..Len(pass[w].orders) /\ o = Cur(w)
                  /\ pass'[w].not_assigned = pass[w].not_assigned + 1
                  /\ order_status'[o] = 0 /\ rid'[o] = None
                  /\ active_order_count' = active_order_count
            /\ (/\ w = "w2" /\ pass[w].pc = "select"
                /\ pass'[w].pc \in {"geocode", "save"}
                /\ o \in pass["w1"].exhausted
                /\ order_table[o] = pass[w].table)
               => o \in Range(pass'[w].orders)]_vars
    /\ [](\A w \in Workers, o \in Orders :
            (pass[w].pc # "idle" /\ o \in pass[w].exhausted)
                => (order_status[o] = 0 /\ rid[o] = None))

\* the second request has selected an order that the first one offered to a courier
\* who rejected it, and that it counted not assigned
C24_Witness ==
    /\ pass["w2"].pc = "geocode"
    /\ \E o \in pass["w1"].exhausted :
         /\ o \in Range(pass["w2"].orders)
         /\ RejectedRiders(o) # {}
         /\ order_status[o] = 0 /\ rid[o] = None


\* C25: a courier who has a recorded rejection for an order is never offered that
\* order again, in the same pass or in a later one: whenever an offer is about to be
\* logged for (order, courier), no Rejection exists for the pair.
C25_NoOfferAfterRejection ==
    \A w \in Workers :
        pass[w].pc = "log_assignment" => CurRider(w) \notin RejectedRiders(Cur(w))


\* C26: load_zones of integrated_one.py loads a zone whose coordinates column holds
\* a documented plain-text format, "(lat,lng),(lat,lng),(lat,lng),(lat,lng)" here,
\* whenever the text yields at least 3 points: the text parser is the fallback for a
\* value that is not JSON, and the zone is in the returned list with the text's points.
C26_TextZoneLoaded ==
    (/\ geo.pc \in {"find", "found"}
     /\ geo.engine = "integrated_one"
     /\ geo.encoding = "text"
     /\ geo.axis = "latlng"
     /\ geo.shape = "rectangle")
        => /\ Len(geo.zones) = 1
           /\ geo.zones[1].id = geo.id
           /\ geo.zones[1].polygon = Ring(geo.box, "lnglat")


\* C27: every zone that load_zones of integrated_one.py or of timepass.py returns has
\* a polygon of at least 3 points that passes the validity check: a row that cannot
\* be parsed is dropped, and so is a row whose polygon is not valid and was not
\* repaired.
C27_LoadedZonesValid ==
    geo.engine \in {"integrated_one", "timepass"} =>
        \A n \in 1..Len(geo.zones) :
            /\ Len(geo.zones[n].polygon) >= 3
            /\ geo.zones[n].repaired \/ IsValid(geo.zones[n].polygon)


\* C28: after assign_order succeeds for (order, courier), four effects hold together:
\* the order has order_status 1 and that courier's id, the courier's
\* active_order_count is one higher than before the call, an Assignment record with
\* status accepted exists for the pair, and a delivery record exists for the pair.
C28_FourEffects ==
    [][(io.pc = "assign_order" /\ order_status'[IOCur] # order_status[IOCur]) =>
         LET o == IOCur
             r == io.nearest_rider
         IN /\ order_status'[o] = 1 /\ rid'[o] = r
            /\ active_order_count'[r] = active_order_count[r] + 1
            /\ tbl_rider_assignments'[o] = [rider_id |-> r, status |-> "accepted"]
            /\ tbl_delivery'[<<o, r>>] > 0]_vars


\* C29: the assignment history is append-only: an Assignment record whose status has
\* reached accepted or rejected is never modified afterwards, also when the same
\* order is offered to a further courier.
C29_TerminalRecordKept ==
    [][\A o \in Orders :
         tbl_rider_assignments[o].status \in {"accepted", "rejected"}
             => tbl_rider_assignments'[o] = tbl_rider_assignments[o]]_vars


\* C30: a pass that is interrupted between two store operations and run again from
\* the start leaves committed work alone: an order that is committed keeps its
\* status and its courier id and gets no second commit, no order is committed twice,
\* and a courier's active_order_count changes only by one, in the step that commits
\* an order to that courier.
C30_RerunKeepsCommitted ==
    /\ [][\A o \in Orders :
            order_status[o] = 1
                => /\ order_status'[o] = 1 /\ rid'[o] = rid[o]
                   /\ CommitsOf(o)' = CommitsOf(o)]_vars
    /\ [][\A r \in Riders :
            active_order_count'[r] # active_order_count[r]
                => /\ active_order_count'[r] = active_order_count[r] + 1
                   /\ \E o \in Orders : /\ order_status[o] = 0 /\ order_status'[o] = 1
                                        /\ rid'[o] = r]_vars
    /\ [](\A o \in Orders : CommitsOf(o) <= 1)

\* the first request committed an order and was then interrupted (it answered with
\* an error); the second request has selected its orders, the committed one not
\* among them
C30_Witness ==
    /\ response["w1"].status = "error"
    /\ pass["w2"].pc = "geocode" /\ pass["w2"].table = "tbl_normal_order"
    /\ pass["w2"].i = 1
    /\ \E o \in Orders :
         /\ order_status[o] = 1 /\ rid[o] # None /\ CommitsOf(o) = 1
         /\ order_table[o] = "tbl_normal_order" /\ o \notin Fetched("w2")


\* the steps of the pass in which a courier holds an offer of the current order or
\* is about to get its commit
CascadeSteps == {"log_assignment", "notify_rider", "respond", "response_update",
                 "assign_order"}

\* the orders this pass fetched (pending, then) that are now committed to courier r
ByPass(w, r) == {o \in Fetched(w) : order_status[o] = 1 /\ rid[o] = r}

\* the courier's load when the pass started: nothing but the pass's own commits has
\* changed it since
StartCount(w, r) == active_order_count[r] - Cardinality(ByPass(w, r))

\* C31: within one pass with no other writer, a courier with headroom
\* k = max_capacity - active_order_count at the start of the pass gets at most k
\* orders from the pass: a courier in the cascade of an order is below capacity, the
\* candidates being queried after the commit of the previous order.
C31_HeadroomRespected ==
    \A w \in Workers :
        /\ pass[w].pc \in CascadeSteps
               => active_order_count[CurRider(w)] < max_capacity[CurRider(w)]
        /\ \A r \in Riders :
               /\ StartCount(w, r) >= 0
               /\ Cardinality(ByPass(w, r)) <= max_capacity[r] - StartCount(w, r)

\* the pass committed its first order to a courier who is now at capacity, and the
\* second order of the pass is offered to another courier, the first one not being
\* among its candidates
C31_Witness ==
    \E w \in Workers, r \in Riders :
        /\ pass[w].pc = "log_assignment" /\ pass[w].i = 2
        /\ ByPass(w, r) = {pass[w].orders[1]}
        /\ StartCount(w, r) = max_capacity[r] - 1
        /\ active_order_count[r] = max_capacity[r]
        /\ is_online[r]
        /\ r \notin Range(pass[w].nearby)


\* C32: each offer of the cascade goes in the order: a pending Assignment record is
\* written, then the courier's notification, then the response is obtained; and
\* assign_order is called for an order only after that courier accepted that order,
\* never for a courier whose response was a rejection.
C32_OfferSequence ==
    \A w \in Workers :
        /\ pass[w].pc \in {"notify_rider", "respond", "response_update"}
               => tbl_rider_assignments[Cur(w)].rider_id = CurRider(w)
        /\ pass[w].pc = "notify_rider"
               => tbl_rider_assignments[Cur(w)].status = "pending"
        /\ pass[w].pc \in {"respond", "response_update"}
               => notif_rider[<<Cur(w), CurRider(w)>>] > 0
        /\ pass[w].pc = "assign_order"
               => /\ pass[w].response_status = "accepted"
                  /\ pass[w].final_rider = CurRider(w)
                  /\ <<Cur(w), CurRider(w), "Rider busy">> \notin tbl_rider_rejections


\* C33: the cascade of an order stops at the first acceptance.  The next candidate
\* gets the offer only in the step after a rejection by the one before it; after an
\* acceptance the pass goes to the commit and to the next order with no further
\* offer; and every Assignment record or courier notification a pass writes is for
\* the candidate at the head of the cascade, so the couriers ranked after the
\* accepting one get none.
C33_StopsAtFirstAcceptance ==
    [][\A w \in Workers :
         /\ (/\ pass[w].pc \in CascadeSteps
             /\ pass'[w].pc \in CascadeSteps
             /\ pass'[w].j # pass[w].j)
            => /\ pass[w].pc = "response_update"
               /\ pass[w].response_status = "rejected"
               /\ pass'[w].j = pass[w].j + 1
               /\ pass'[w].i = pass[w].i
         /\ (/\ pass[w].pc \in {"response_update", "assign_order", "notify_user"}
             /\ pass[w].response_status = "accepted"
             /\ pass'[w] # pass[w])
            => /\ pass'[w].pc \in {"assign_order", "notify_user", "geocode", "save", "raised"}
               /\ pass'[w].pc \in {"assign_order", "notify_user"}
                      => (pass'[w].j = pass[w].j /\ pass'[w].i = pass[w].i)
         /\ \A o \in Orders, r \in Riders :
               (/\ pass'[w] # pass[w]
                /\ \/ notif_rider'[<<o, r>>] # notif_rider[<<o, r>>]
                   \/ /\ tbl_rider_assignments'[o] # tbl_rider_assignments[o]
                      /\ tbl_rider_assignments'[o].rider_id = r)
               => (pass[w].pc \in CascadeSteps /\ o = Cur(w) /\ r = CurRider(w))]_vars

\* the first of two candidates accepted and the order is committed; the second has
\* no notification and no Assignment record for the order
C33_Witness ==
    \E w \in Workers :
        /\ pass[w].pc = "notify_user"
        /\ Len(pass[w].nearby) = 2 /\ pass[w].j = 1
        /\ pass[w].final_rider = pass[w].nearby[1]
        /\ order_status[Cur(w)] = 1 /\ rid[Cur(w)] = pass[w].nearby[1]
        /\ notif_rider[<<Cur(w), pass[w].nearby[2]>>] = 0
        /\ tbl_rider_assignments[Cur(w)].rider_id = pass[w].nearby[1]


\* the kilometres a distance text of the returned list stands for
RoadDistance(d) == d.num

\* C34: the list get_available_riders returns holds the riders with a distance text,
\* every rider whose route covers the order location before every rider whose route
\* does not, and within each group in non-decreasing road distance; the cascade
\* offers the order in exactly this sequence.
C34_RankedOffers ==
    ranking.pc \in {"offer", "done"} =>
        /\ Range(ranking.nearby) = {r \in ranking.riders : ranking.dist[r] # NoDistance}
        /\ \A n, m \in 1..Len(ranking.nearby) :
               n < m =>
                   LET a == ranking.nearby[n]
                       b == ranking.nearby[m]
                   IN /\ a # b
                      /\ b \in ranking.on_route => a \in ranking.on_route
                      /\ (a \in ranking.on_route <=> b \in ranking.on_route)
                             => RoadDistance(ranking.dist[a]) <= RoadDistance(ranking.dist[b])
        /\ ranking.offered = SubSeq(ranking.nearby, 1, ranking.j)

\* three riders were offered the order in turn: first the one on route, although it
\* is the farthest, then the other two by distance, against the order of the query
C34_Witness ==
    /\ ranking.pc = "done" /\ Len(ranking.offered) = 3
    /\ ranking.offered[1] \in ranking.on_route
    /\ ranking.offered[2] \notin ranking.on_route
    /\ ranking.offered[3] \notin ranking.on_route
    /\ RoadDistance(ranking.dist[ranking.offered[1]])
           > RoadDistance(ranking.dist[ranking.offered[3]])
    /\ RoadDistance(ranking.dist[ranking.offered[2]])
           < RoadDistance(ranking.dist[ranking.offered[3]])
    /\ ranking.offered[2] > ranking.offered[3]


\* no element occurs twice in the sequence
Distinct(s) == \A n, m \in 1..Len(s) : n # m => s[n] # s[m]

\* the request of worker w is running one of its passes
InPass(w) == pass[w].pc # "idle"

\* the steps of one pass visit the fetched orders from the first to the last and,
\* for one order, the candidates from the first on
Advances(w) ==
    LET p == pass[w]
        q == pass'[w]
    IN (InPass(w) /\ q.pc \notin {"idle", "select"}) =>
           /\ p.pc # "select" => q.orders = p.orders /\ q.i \in {p.i, p.i + 1}
           /\ (q.i = p.i /\ p.pc \in CascadeSteps /\ q.pc \in CascadeSteps) =>
                  /\ q.nearby = p.nearby
                  /\ q.j \in {p.j, p.j + 1}
                  /\ q.pc = "log_assignment" => q.j = p.j + 1

\* C35: every pass of process_order_table ends, by returning or by raising; the
\* fetched orders are taken once each, in turn, and for one order every candidate
\* is offered the order at most once.
C35_PassTerminates ==
    /\ \A w \in Workers : InPass(w) ~> ~InPass(w)
    /\ [](\A w \in Workers : Distinct(pass[w].orders) /\ Distinct(pass[w].nearby))
    /\ [][\A w \in Workers : Advances(w)]_vars

\* the pass has gone through two orders and is at the second candidate of the second
C35_Witness ==
    \E w \in Workers :
        /\ pass[w].pc = "response_update"
        /\ pass[w].i = 2 /\ Len(pass[w].orders) = 2
        /\ pass[w].j = 2 /\ Len(pass[w].nearby) = 2
        /\ pass[w].response_status = "rejected"

\* integrated_one.py: the request that started is answered
IO_PassTerminates == (io.pc # "idle") ~> (io.pc = "done")


\* C36: an "Order Assigned!" notification of the user exists for an order only if the
\* order is stored with order_status 1 and a courier id.
C36_NotifiedOnlyIfCommitted ==
    \A o \in Orders : notif_user[o] > 0 => order_status[o] = 1 /\ rid[o] # None


\* the orders a step commits to courier r
Gained(r) == {o \in Orders : order_status[o] = 0 /\ order_status'[o] = 1 /\ rid'[o] = r}

\* C37: every step changes a courier's active_order_count by the number of orders it
\* commits to that courier, which is one order, in assign_order, or none; the
\* candidate query, the offer, the rejection log and the notifications leave the
\* count alone, and a committed order keeps its status and its courier.  So the
\* increase of the count over any sequence of passes is the number of orders
\* committed to the courier.
C37_LoadConserved ==
    [][/\ \A r \in Riders :
             /\ active_order_count'[r] - active_order_count[r] = Cardinality(Gained(r))
             /\ Gained(r) # {} =>
                    \E w \in Workers : /\ pass[w].pc = "assign_order"
                                       /\ pass[w].final_rider = r
                                       /\ Gained(r) = {Cur(w)}
       /\ \A o \in Orders :
             order_status[o] = 1 => order_status'[o] = 1 /\ rid'[o] = rid[o]]_vars

\* both orders are committed, to different couriers, after one courier rejected an
\* offer and was notified of an order that went to the other; each courier's count
\* is one
C37_Witness ==
    /\ \A o \in Orders : order_status[o] = 1 /\ rid[o] # None
    /\ \A r \in Riders :
         /\ Cardinality({o \in Orders : rid[o] = r}) = 1
         /\ active_order_count[r] = 1
    /\ \E o \in Orders, r \in Riders :
         /\ rid[o] # r /\ notif_rider[<<o, r>>] > 0
         /\ \E x \in tbl_rider_rejections : x[1] = o /\ x[2] = r


\* integrated_one.py: the same conservation, the commit being the one of its
\* assign_order
IO_LoadConserved ==
    [][/\ \A r \in Riders :
             /\ active_order_count'[r] - active_order_count[r] = Cardinality(Gained(r))
             /\ Gained(r) # {} => io.pc = "assign_order" /\ Gained(r) = {IOCur}
       /\ \A o \in Orders :
             order_status[o] = 1 => order_status'[o] = 1 /\ rid'[o] = rid[o]]_vars


\* the couriers that are online and available with room for an order, and that the
\* riders query leaves out for order o because of a rejection logged earlier
TurnedAway(o) ==
    {r \in Riders : /\ is_online[r] /\ is_available[r]
                    /\ active_order_count[r] < max_capacity[r]
                    /\ \E x \in tbl_rider_rejections : x[1] = o /\ x[2] = r}

\* C38: a pending order is offered again in a later pass to the couriers that can
\* take it: when the candidate query of a pass finds nobody for the order, no
\* courier who is online and available with capacity was left out because of a
\* rejection of an earlier offer.
C38_RetryOffersAgain ==
    [][\A w \in Workers :
          (/\ pass[w].pc = "query"
           /\ pass'[w].pc # "raised"
           /\ pass'[w].not_assigned = pass[w].not_assigned + 1)
              => TurnedAway(Cur(w)) = {}]_vars

====
